---------------------------- MODULE Spec2Model ----------------------------
(***************************************************************************)
(* A model of parseidf.py: the PLY lexer rules (t_COMMENT, t_newline,      *)
(* t_VALUE, t_COMMA, t_SEMICOLON, t_error), the grammar actions            *)
(* (p_idffile ... p_valuelist_multiple, p_error), parse() and              *)
(* extract_zones().                                                        *)
(*                                                                         *)
(* Text is a sequence of one-character strings.  Positions are the lexer's *)
(* lexpos: the number of characters consumed so far.                       *)
(***************************************************************************)
EXTENDS Integers, Sequences, FiniteSets, TLC

(***************************************************************************)
(* Bounds of the model.                                                    *)
(***************************************************************************)
MaxLen == 4

MaxZones == 2

MaxSurfaces == 2

(***************************************************************************)
(* Characters.                                                             *)
(***************************************************************************)
NL == "\n"

CR == "\r"

TAB == "\t"

\* the characters the inputs of the model are written with
Alphabet == {"a", "A", ",", ";", " ", NL, "!", "#"}

\* [ \t]
HWS == {" ", TAB}

\* [ \t\r\n]
WSN == {" ", TAB, CR, NL}

\* the complement of [^!,;\n]
ValueExcl == {"!", ",", ";", NL}

\* the characters str.strip() removes
StripChars == {" ", TAB, CR, NL}

RECURSIVE SkipIn(_, _, _)
\* the position after the longest run, from position p, of characters of S
SkipIn(t, p, S) ==
    IF p < Len(t) /\ t[p + 1] \in S THEN SkipIn(t, p + 1, S) ELSE p

RECURSIVE SkipNotIn(_, _, _)
\* the position after the longest run, from position p, of characters not in S
SkipNotIn(t, p, S) ==
    IF p < Len(t) /\ t[p + 1] \notin S THEN SkipNotIn(t, p + 1, S) ELSE p

RECURSIVE NlRun(_, _)
\* (\r?\n)* from position p, greedy
NlRun(t, p) ==
    IF p < Len(t) /\ t[p + 1] = NL THEN NlRun(t, p + 1)
    ELSE IF p + 1 < Len(t) /\ t[p + 1] = CR /\ t[p + 2] = NL THEN NlRun(t, p + 2)
    ELSE p

NoMatch == 0 - 1

(***************************************************************************)
(* The lexer rules: each gives the end of its match at position p, or      *)
(* NoMatch.                                                                *)
(***************************************************************************)
\* t_COMMENT: [ \t\r\n]*!.*   ('.' matches everything but a newline)
MatchComment(t, p) ==
    LET q == SkipIn(t, p, WSN)
    IN  IF q < Len(t) /\ t[q + 1] = "!" THEN SkipNotIn(t, q + 1, {NL}) ELSE NoMatch

\* t_newline: [ \t]*(\r?\n)+
MatchNewline(t, p) ==
    LET h == SkipIn(t, p, HWS)
        e == NlRun(t, h)
    IN  IF e > h THEN e ELSE NoMatch

\* a bug t_VALUE could have: '#' is not a value character
MatchValueNoHash(t, p) ==
    LET e == SkipNotIn(t, p, ValueExcl \cup {"#"})
    IN  IF e > p THEN e ELSE NoMatch

\* t_VALUE: [ \t]*([^!,;\n]|[*])+[ \t]*
\* [ \t] and [*] lie within [^!,;\n], and the group needs one character, so
\* the match is the longest non-empty run of characters other than ! , ; \n
MatchValue(t, p) ==
    LET e == SkipNotIn(t, p, ValueExcl)
    IN  IF e > p THEN e ELSE NoMatch

\* [ \t]*<ch>[ \t]*
MatchSep(t, p, ch) ==
    LET h == SkipIn(t, p, HWS)
    IN  IF h < Len(t) /\ t[h + 1] = ch THEN SkipIn(t, h + 1, HWS) ELSE NoMatch

\* t_COMMA: [ \t]*,[ \t]*
MatchComma(t, p) == MatchSep(t, p, ",")

\* t_SEMICOLON: [ \t]*;[ \t]*
MatchSemicolon(t, p) == MatchSep(t, p, ";")

\* the characters of t from position p (exclusive) to e (inclusive)
Slice(t, p, e) == [i \in 1..(e - p) |-> t[p + i]]

\* the number of newline characters in the first p characters of t
Newlines(t, p) == Cardinality({i \in 1..p : t[i] = NL})

(***************************************************************************)
(* One match of the lexer's master expression at the lexer's position.     *)
(* The function rules come first, in the order they are defined, then the  *)
(* string rules; the first alternative that matches wins.                  *)
(* A lexer is [data, fed, pos, lineno]; fed is false until input() gives   *)
(* it its text, and token() on such a lexer raises RuntimeError.           *)
(***************************************************************************)
LexMatch(lx) ==
    LET t == lx.data
        p == lx.pos
    IN  IF ~lx.fed THEN [kind |-> "noinput", end |-> p]
        ELSE IF p >= Len(t) THEN [kind |-> "eof", end |-> p]
        ELSE IF MatchComment(t, p) # NoMatch
            THEN [kind |-> "COMMENT", end |-> MatchComment(t, p)]
        ELSE IF MatchNewline(t, p) # NoMatch
            THEN [kind |-> "newline", end |-> MatchNewline(t, p)]
        ELSE IF MatchValue(t, p) # NoMatch
            THEN [kind |-> "VALUE", end |-> MatchValue(t, p)]
        ELSE IF MatchSemicolon(t, p) # NoMatch
            THEN [kind |-> "SEMICOLON", end |-> MatchSemicolon(t, p)]
        ELSE IF MatchComma(t, p) # NoMatch
            THEN [kind |-> "COMMA", end |-> MatchComma(t, p)]
        ELSE [kind |-> "error", end |-> p]

\* t_COMMENT adds the newlines to the token's own lineno, t_newline adds the
\* length of the whole match to the lexer's lineno
LexAdvance(lx, m) ==
    [data |-> lx.data,
     fed |-> lx.fed,
     pos |-> m.end,
     lineno |-> IF m.kind = "newline" THEN lx.lineno + (m.end - lx.pos)
                ELSE lx.lineno]


(***************************************************************************)
(* The grammar actions.  A record is a sequence of strings, a string is a  *)
(* sequence of characters, a mapping is a function from keys to sequences  *)
(* of records.                                                             *)
(***************************************************************************)
RECURSIVE LStrip(_)
LStrip(s) == IF s # <<>> /\ Head(s) \in StripChars THEN LStrip(Tail(s)) ELSE s

RECURSIVE RStrip(_)
RStrip(s) ==
    IF s # <<>> /\ s[Len(s)] \in StripChars THEN RStrip(SubSeq(s, 1, Len(s) - 1)) ELSE s

\* str.strip()
Strip(s) == RStrip(LStrip(s))

UpperChar(ch) == IF ch = "a" THEN "A" ELSE ch

\* str.upper()
Upper(s) == [i \in 1..Len(s) |-> UpperChar(s[i])]

EmptyMap == [k \in {} |-> <<>>]

\* a bug p_idffile could have: the object is put in front of its group
SetDefaultPrepend(result, key, idfobject) ==
    IF key \in DOMAIN result
    THEN [result EXCEPT ![key] = <<idfobject>> \o @]
    ELSE [k \in (DOMAIN result) \cup {key} |->
              IF k = key THEN <<idfobject>> ELSE result[k]]

\* result.setdefault(key, []).append(idfobject)
SetDefaultAppend(result, key, idfobject) ==
    IF key \in DOMAIN result
    THEN [result EXCEPT ![key] = Append(@, idfobject)]
    ELSE [k \in (DOMAIN result) \cup {key} |->
              IF k = key THEN <<idfobject>> ELSE result[k]]

RECURSIVE GroupFrom(_, _, _)
GroupFrom(list, i, result) ==
    IF i > Len(list) THEN result
    ELSE GroupFrom(list, i + 1, SetDefaultAppend(result, Upper(list[i][1]), list[i]))

\* idffile : idfobjectlist
P_idffile(list) == GroupFrom(list, 1, EmptyMap)

RECURSIVE P_idfobjectlist(_)
\* idfobjectlist : idfobject | idfobject idfobjectlist
P_idfobjectlist(objs) ==
    IF Len(objs) = 1 THEN <<objs[1]>>
    ELSE <<objs[1]>> \o P_idfobjectlist(Tail(objs))

\* objectname : VALUE
P_objectname(v) == Strip(v)

RECURSIVE P_valuelist(_)
\* valuelist : VALUE | VALUE COMMA valuelist
P_valuelist(vals) ==
    IF Len(vals) = 1 THEN <<Strip(vals[1])>>
    ELSE <<Strip(vals[1])>> \o P_valuelist(Tail(vals))

\* idfobject : objectname SEMICOLON | objectname COMMA valuelist SEMICOLON
P_idfobject(name, vals) ==
    IF vals = <<>> THEN <<P_objectname(name)>>
    ELSE <<P_objectname(name)>> \o P_valuelist(vals)

(***************************************************************************)
(* The parser yacc builds from the grammar, as an automaton over tokens.   *)
(* A parser state is [st, objs, name, vals]: objs the objects recognised   *)
(* so far, name and vals the VALUE tokens of the object being read.        *)
(* st: "S0" nothing read, "NAME" after the object's name, "SEP" after a    *)
(* comma, "VAL" after a field, "OBJ" after a semicolon.                    *)
(***************************************************************************)
ParserInit == [st |-> "S0", objs |-> <<>>, name |-> <<>>, vals |-> <<>>]

\* the parser on token kind k with text v: its next state, "accept" or "error"
ParserStep(ps, k, v) ==
    CASE ps.st \in {"S0", "OBJ"} /\ k = "VALUE" ->
            [st |-> "NAME", objs |-> ps.objs, name |-> v, vals |-> <<>>]
      [] ps.st = "OBJ" /\ k = "eof" ->
            [st |-> "accept", objs |-> ps.objs, name |-> <<>>, vals |-> <<>>]
      [] ps.st \in {"NAME", "VAL"} /\ k = "COMMA" ->
            [ps EXCEPT !.st = "SEP"]
      [] ps.st \in {"NAME", "VAL"} /\ k = "SEMICOLON" ->
            [st |-> "OBJ", objs |-> Append(ps.objs, P_idfobject(ps.name, ps.vals)),
             name |-> <<>>, vals |-> <<>>]
      [] ps.st = "SEP" /\ k = "VALUE" ->
            [ps EXCEPT !.st = "VAL", !.vals = Append(@, v)]
      [] OTHER -> [ps EXCEPT !.st = "error"]

\* what parse() leaves its caller with
Ok(result) == [kind |-> "ok", line |-> 0, result |-> result]

Raised(kind, line) == [kind |-> kind, line |-> line, result |-> EmptyMap]

NoOutcome == [kind |-> "none", line |-> 0, result |-> EmptyMap]

(***************************************************************************)
(* One step of parser.parse(): one match of lexer lx, handed to the parser *)
(* when it is a token or the end of the input.                             *)
(***************************************************************************)
TokenStep(lx, ps) ==
    LET m == LexMatch(lx)
        lx2 == LexAdvance(lx, m)
        ps2 == ParserStep(ps, m.kind, Slice(lx.data, lx.pos, m.end))
    IN  CASE m.kind \in {"COMMENT", "newline"} ->
                [lx |-> lx2, ps |-> ps, status |-> "run"]
          [] m.kind = "error" ->
                [lx |-> lx, ps |-> ps, status |-> "IllegalChar"]
          [] m.kind = "noinput" ->
                [lx |-> lx, ps |-> ps, status |-> "RuntimeError"]
          [] OTHER ->
                [lx |-> lx2, ps |-> ps2,
                 status |-> IF ps2.st = "error" THEN "SyntaxError"
                            ELSE IF ps2.st = "accept" THEN "accept" ELSE "run"]

\* a fresh lexer (lex.lex())
NewLexer == [data |-> <<>>, fed |-> FALSE, pos |-> 0, lineno |-> 1]

RECURSIVE RunFrom(_, _)
RunFrom(lx, ps) ==
    LET r == TokenStep(lx, ps)
    IN  CASE r.status = "run" -> RunFrom(r.lx, r.ps)
          [] r.status = "accept" -> Ok(P_idffile(P_idfobjectlist(r.ps.objs)))
          [] r.status = "IllegalChar" -> Raised("IllegalChar", r.lx.lineno)
          [] r.status = "RuntimeError" -> Raised("RuntimeError", 0)
          [] OTHER -> Raised("SyntaxError", r.lx.lineno)

\* parse(text) called alone
ParseAlone(text) ==
    RunFrom([NewLexer EXCEPT !.data = text, !.fed = TRUE], ParserInit)

(***************************************************************************)
(* State.                                                                  *)
(***************************************************************************)
VARIABLES
    input,       \* per call of parse: its argument
    pc,          \* per call: "start", "built", "fed", "yacc", "run", "done"
    lexers,      \* per call: the lexer object the call built
    lexglobal,   \* lex.lexer: the call whose lexer lex.lex() built last, 0 if none
    bound,       \* per call: the lexer its parser reads tokens from
    parser,      \* per call: the parser's state
    outcome,     \* per call: what parse returned or raised
    parsed_idf,  \* extract_zones: its argument, [zone, surface] record lists
    zones,       \* extract_zones: the zones dictionary
    idx,         \* extract_zones: the index of the next record of the loop
    epc,         \* extract_zones: "idle", "zones", "surfaces", "returned"
    raised,      \* extract_zones: the exception that ended it, or "none"
    errors       \* extract_zones: the surfaces whose error was printed

parseVars == <<input, pc, lexers, lexglobal, bound, parser, outcome>>

zoneVars == <<parsed_idf, zones, idx, epc, raised, errors>>

vars == <<input, pc, lexers, lexglobal, bound, parser, outcome,
          parsed_idf, zones, idx, epc, raised, errors>>

Calls == DOMAIN pc

(***************************************************************************)
(* parse(input), statement by statement.                                   *)
(***************************************************************************)
\* lexer = lex.lex(debug=False): builds a lexer and makes it lex.lexer
LexBuild(c) ==
    /\ pc[c] = "start"
    /\ lexers' = [lexers EXCEPT ![c] = NewLexer]
    /\ lexglobal' = c
    /\ pc' = [pc EXCEPT ![c] = "built"]
    /\ UNCHANGED <<input, bound, parser, outcome, zoneVars>>

\* lexer.input(input)
LexInput(c) ==
    /\ pc[c] = "built"
    /\ lexers' = [lexers EXCEPT ![c] = [@ EXCEPT !.data = input[c], !.fed = TRUE, !.pos = 0]]
    /\ pc' = [pc EXCEPT ![c] = "fed"]
    /\ UNCHANGED <<input, lexglobal, bound, parser, outcome, zoneVars>>

\* parser = yacc.yacc()
YaccBuild(c) ==
    /\ pc[c] = "fed"
    /\ parser' = [parser EXCEPT ![c] = ParserInit]
    /\ pc' = [pc EXCEPT ![c] = "yacc"]
    /\ UNCHANGED <<input, lexers, lexglobal, bound, outcome, zoneVars>>

\* parser.parse(debug=False): no lexer is passed, so the parser takes lex.lexer
ParseBegin(c) ==
    /\ pc[c] = "yacc"
    /\ bound' = [bound EXCEPT ![c] = lexglobal]
    /\ pc' = [pc EXCEPT ![c] = "run"]
    /\ UNCHANGED <<input, lexers, lexglobal, parser, outcome, zoneVars>>

\* the parser asks its lexer for a token; p_error names lex.lexer.lineno,
\* t_error names t.lexer.lineno
Token(c) ==
    /\ pc[c] = "run"
    /\ LET r == TokenStep(lexers[bound[c]], parser[c])
           lexers2 == [lexers EXCEPT ![bound[c]] = r.lx]
       IN  /\ lexers' = lexers2
           /\ parser' = [parser EXCEPT ![c] = r.ps]
           /\ pc' = [pc EXCEPT ![c] = IF r.status = "run" THEN "run" ELSE "done"]
           /\ outcome' = [outcome EXCEPT ![c] =
                  CASE r.status = "run" -> @
                    [] r.status = "accept" -> Ok(P_idffile(P_idfobjectlist(r.ps.objs)))
                    [] r.status = "IllegalChar" -> Raised("IllegalChar", r.lx.lineno)
                    [] r.status = "RuntimeError" -> Raised("RuntimeError", 0)
                    [] OTHER -> Raised("SyntaxError", lexers2[lexglobal].lineno)]
    /\ UNCHANGED <<input, lexglobal, bound, zoneVars>>

ParseNext ==
    \/ \E c \in Calls : LexBuild(c)
    \/ \E c \in Calls : LexInput(c)
    \/ \E c \in Calls : YaccBuild(c)
    \/ \E c \in Calls : ParseBegin(c)
    \/ \E c \in Calls : Token(c)

RECURSIVE Texts(_)
\* the texts of length n over the alphabet
Texts(n) == IF n = 0 THEN {<<>>} ELSE {Append(t, ch) : t \in Texts(n - 1), ch \in Alphabet}

AllTexts == UNION {Texts(n) : n \in 0..MaxLen}

NoZones ==
    /\ parsed_idf = [zone |-> <<>>, surface |-> <<>>]
    /\ zones = EmptyMap
    /\ idx = 0
    /\ epc = "idle"
    /\ raised = "none"
    /\ errors = <<>>

\* one call of parse on any text
InitParse ==
    /\ input \in [{1} -> AllTexts]
    /\ pc = [c \in {1} |-> "start"]
    /\ lexers = [c \in {1} |-> NewLexer]
    /\ lexglobal = 0
    /\ bound = [c \in {1} |-> 0]
    /\ parser = [c \in {1} |-> ParserInit]
    /\ outcome = [c \in {1} |-> NoOutcome]
    /\ NoZones

SpecParse == InitParse /\ [][ParseNext]_vars


(***************************************************************************)
(* Two calls of parse on distinct inputs, their statements interleaved.    *)
(***************************************************************************)
ParTexts ==
    {<<"a", ";">>, <<"A", ",", "a", ";">>, <<NL, NL, ",">>, <<"a", NL, "#">>}

InitPar ==
    /\ input \in {f \in [{1, 2} -> ParTexts] : f[1] # f[2]}
    /\ pc = [c \in {1, 2} |-> "start"]
    /\ lexers = [c \in {1, 2} |-> NewLexer]
    /\ lexglobal = 0
    /\ bound = [c \in {1, 2} |-> 0]
    /\ parser = [c \in {1, 2} |-> ParserInit]
    /\ outcome = [c \in {1, 2} |-> NoOutcome]
    /\ NoZones

SpecPar == InitPar /\ [][ParseNext]_vars

(***************************************************************************)
(* extract_zones(parsed_idf).  Python indexes from 0, the model from 1:    *)
(* zone[1] is zone[2] here, surface[4] is surface[5].                      *)
(***************************************************************************)
Digits == {"0", "1", "2", "3", "4", "5", "6", "7", "8", "9"}

DigitVal(ch) ==
    CASE ch = "0" -> 0 [] ch = "1" -> 1 [] ch = "2" -> 2 [] ch = "3" -> 3
      [] ch = "4" -> 4 [] ch = "5" -> 5 [] ch = "6" -> 6 [] ch = "7" -> 7
      [] ch = "8" -> 8 [] ch = "9" -> 9

RECURSIVE DigitsVal(_)
\* the number a sequence of digits writes
DigitsVal(s) ==
    IF s = <<>> THEN 0 ELSE 10 * DigitsVal(SubSeq(s, 1, Len(s) - 1)) + DigitVal(s[Len(s)])

\* the text without its sign
Unsigned(s) == IF s # <<>> /\ s[1] \in {"-", "+"} THEN Tail(s) ELSE s

\* float(s) succeeds: a sign, digits and at most one point, one digit at least
\* (the fields of the model hold no exponent, "inf", "nan" or underscore)
IsFloat(s) ==
    LET u == Unsigned(s)
        dots == {i \in 1..Len(u) : u[i] = "."}
    IN  /\ \A i \in 1..Len(u) : u[i] \in Digits \cup {"."}
        /\ Cardinality(dots) <= 1
        /\ Len(u) > Cardinality(dots)

RECURSIVE Normal(_)
\* a decimal [n, s] (n / 10^s) without trailing zeros
Normal(d) ==
    IF d.s > 0 /\ d.n % 10 = 0 THEN Normal([n |-> d.n \div 10, s |-> d.s - 1]) ELSE d

\* float(s), for IsFloat(s): the decimal it writes
FloatOf(s) ==
    LET u == Unsigned(s)
        ds == SelectSeq(u, LAMBDA ch : ch # ".")
        dot == IF \E i \in 1..Len(u) : u[i] = "."
               THEN CHOOSE i \in 1..Len(u) : u[i] = "." ELSE Len(u)
        mag == DigitsVal(ds)
    IN  Normal([n |-> IF s[1] = "-" THEN 0 - mag ELSE mag, s |-> Len(u) - dot])

\* int(s), for a text of digits
IntOf(s) == DigitsVal(s)

\* line 152 with a wrong index: the record's type name
ZoneNameOffByOne(zone) == zone[1]

\* zone_name = zone[1]
ZoneName(zone) == zone[2]

\* what evaluating float(rec[j]) for j = from .. to, in this order, raises:
\* IndexError past the end of the record, ValueError on a non-numeric field
RECURSIVE FloatsRaise(_, _, _)
FloatsRaise(rec, from, to) ==
    IF from > to THEN "none"
    ELSE IF from > Len(rec) THEN "IndexError"
    ELSE IF ~IsFloat(rec[from]) THEN "ValueError"
    ELSE FloatsRaise(rec, from + 1, to)

\* lines 152-156 on one ZONE record: the exception raised, or "none"
ZoneRaises(zone) ==
    IF Len(zone) < 2 THEN "IndexError" ELSE FloatsRaise(zone, 4, 6)

\* zones[zone_name] = {"origin": (...), "surfaces": []}
ZoneEntry(zone) ==
    [origin |-> <<FloatOf(zone[4]), FloatOf(zone[5]), FloatOf(zone[6])>>,
     surfaces |-> <<>>]

\* zones[key] = entry
DictSet(d, key, entry) ==
    [k \in (DOMAIN d) \cup {key} |-> IF k = key THEN entry ELSE d[k]]

Four == <<"4">>

\* surface.index('4'): the first position holding '4' (0: ValueError)
IndexOfFour(surface) ==
    IF \E i \in 1..Len(surface) : surface[i] = Four
    THEN CHOOSE i \in 1..Len(surface) :
             surface[i] = Four /\ \A j \in 1..(i - 1) : surface[j] # Four
    ELSE 0

\* line 164 off by one
VerticesStartSkipsOne(num_vertices_index) == num_vertices_index + 2

\* vertices_start_index = num_vertices_index + 1
VerticesStart(num_vertices_index) == num_vertices_index + 1

\* lines 166-170: the vertices list
Vertices(surface, start, num_vertices) ==
    [i \in 1..num_vertices |->
        <<FloatOf(surface[start + (i - 1) * 3]),
          FloatOf(surface[start + (i - 1) * 3 + 1]),
          FloatOf(surface[start + (i - 1) * 3 + 2])>>]

\* lines 162-171 on one surface: the exception raised, or "none"
SurfaceRaises(surface) ==
    LET k == IndexOfFour(surface)
    IN  IF k = 0 THEN "ValueError"
        ELSE FloatsRaise(surface, VerticesStart(k),
                         VerticesStart(k) + 3 * IntOf(surface[k]) - 1)

\* zones = {}
Call ==
    /\ epc = "idle"
    /\ zones' = EmptyMap
    /\ idx' = 1
    /\ epc' = "zones"
    /\ UNCHANGED <<parsed_idf, raised, errors, parseVars>>

\* one round of: for zone in parsed_idf.get('ZONE', [])
ZoneStep ==
    /\ epc = "zones" /\ raised = "none"
    /\ idx <= Len(parsed_idf.zone)
    /\ LET zone == parsed_idf.zone[idx]
       IN  IF ZoneRaises(zone) # "none"
           THEN /\ raised' = ZoneRaises(zone)
                /\ UNCHANGED <<zones, idx>>
           ELSE /\ zones' = DictSet(zones, ZoneName(zone), ZoneEntry(zone))
                /\ idx' = idx + 1
                /\ UNCHANGED raised
    /\ UNCHANGED <<parsed_idf, epc, errors, parseVars>>

\* the zone loop ends, the surface loop begins
ZonesDone ==
    /\ epc = "zones" /\ raised = "none"
    /\ idx > Len(parsed_idf.zone)
    /\ epc' = "surfaces"
    /\ idx' = 1
    /\ UNCHANGED <<parsed_idf, zones, raised, errors, parseVars>>

\* one round of: for surface in parsed_idf.get('BUILDINGSURFACE:DETAILED', [])
SurfaceStep ==
    /\ epc = "surfaces" /\ raised = "none"
    /\ idx <= Len(parsed_idf.surface)
    /\ LET surface == parsed_idf.surface[idx]
       IN  IF Len(surface) < 5
           THEN \* zone_name = surface[4] raises outside the try
                /\ raised' = "IndexError"
                /\ UNCHANGED <<zones, idx, errors>>
           ELSE IF surface[5] \notin DOMAIN zones
           THEN /\ idx' = idx + 1
                /\ UNCHANGED <<zones, raised, errors>>
           ELSE IF SurfaceRaises(surface) = "ValueError"
           THEN \* except ValueError: print, continue
                /\ errors' = Append(errors, idx)
                /\ idx' = idx + 1
                /\ UNCHANGED <<zones, raised>>
           ELSE IF SurfaceRaises(surface) = "IndexError"
           THEN \* not a ValueError: it leaves extract_zones
                /\ raised' = "IndexError"
                /\ UNCHANGED <<zones, idx, errors>>
           ELSE /\ zones' = [zones EXCEPT ![surface[5]].surfaces =
                                Append(@, Vertices(surface,
                                                   VerticesStart(IndexOfFour(surface)),
                                                   IntOf(surface[IndexOfFour(surface)])))]
                /\ idx' = idx + 1
                /\ UNCHANGED <<raised, errors>>
    /\ UNCHANGED <<parsed_idf, epc, parseVars>>

\* return zones
Return ==
    /\ epc = "surfaces" /\ raised = "none"
    /\ idx > Len(parsed_idf.surface)
    /\ epc' = "returned"
    /\ UNCHANGED <<parsed_idf, zones, idx, raised, errors, parseVars>>

ZonesNext == Call \/ ZoneStep \/ ZonesDone \/ SurfaceStep \/ Return

(***************************************************************************)
(* The records extract_zones is given in the model.                        *)
(***************************************************************************)
ZONE == <<"Z", "O", "N", "E">>

BSD == <<"B", "U", "I", "L", "D", "I", "N", "G", "S", "U", "R", "F", "A", "C", "E", ":", "D", "E", "T", "A", "I", "L", "E", "D">>

Z1 == <<"Z", "1">>

Z2 == <<"Z", "2">>

ZX == <<"Z", "X">>

S(ch) == <<ch>>

Coords ==
    <<S("0"), S("1"), S("2"), S("3"), S("5"), S("6"),
      S("7"), S("8"), S("9"), <<"1", ".", "5">>, <<"-", "2">>, <<"3", ".", "0">>>>

ZoneChoices ==
    {<<ZONE, Z1, S("0"), <<"1", ".", "0">>, S("2"), S("3")>>,
     <<ZONE, Z2, S("0"), S("0"), S("0"), S("0")>>,
     <<ZONE, Z1, S("0"), S("1"), S("x"), S("3")>>,
     <<ZONE, Z2, S("0")>>}

\* a surface record: its name, its zone, then the tail
Surface(name, zone, tail) == <<BSD, name, S("W"), S("C"), zone, S("O")>> \o tail

SurfaceChoices ==
    {Surface(S("s"), Z1, <<Four>> \o Coords),
     Surface(S("t"), Z2, <<Four>> \o Coords),
     Surface(S("u"), ZX, <<Four>> \o Coords),
     Surface(Four, Z1, <<Four>> \o Coords),
     Surface(S("v"), Z1, <<Four>> \o [Coords EXCEPT ![7] = S("x")]),
     Surface(S("w"), Z1, <<S("3")>> \o SubSeq(Coords, 1, 3)),
     Surface(S("y"), Z1, <<Four>> \o SubSeq(Coords, 1, 11)),
     <<BSD, S("z")>>}

RECURSIVE SeqsUpTo(_, _)
\* the sequences of at most n elements of S
SeqsUpTo(S_, n) ==
    IF n = 0 THEN {<<>>}
    ELSE SeqsUpTo(S_, n - 1) \cup {Append(q, x) : q \in SeqsUpTo(S_, n - 1), x \in S_}

InitZones ==
    /\ parsed_idf \in [zone : SeqsUpTo(ZoneChoices, MaxZones),
                       surface : SeqsUpTo(SurfaceChoices, MaxSurfaces)]
    /\ zones = EmptyMap
    /\ idx = 0
    /\ epc = "idle"
    /\ raised = "none"
    /\ errors = <<>>
    /\ input = <<>>
    /\ pc = <<>>
    /\ lexers = <<>>
    /\ lexglobal = 0
    /\ bound = <<>>
    /\ parser = <<>>
    /\ outcome = <<>>

SpecZones == InitZones /\ [][ZonesNext]_vars

(***************************************************************************)
(* Properties of parse.                                                    *)
(***************************************************************************)
Seps == {",", ";"}

\* character i of t stands in a comment: after a '!' of its own line
InComment(t, i) ==
    \E j \in 1..(i - 1) : t[j] = "!" /\ \A k \in j..(i - 1) : t[k] # NL

\* C1: when parse returns a mapping, the records under each key are exactly
\* the objects of the input whose uppercased first element is that key, in
\* the order of the input, and every object is under its uppercased name.
C1_Grouping ==
    \A c \in Calls :
        outcome[c].kind = "ok" =>
            LET R == outcome[c].result
                objs == parser[c].objs
            IN  /\ \A i \in 1..Len(objs) : Upper(objs[i][1]) \in DOMAIN R
                /\ \A k \in DOMAIN R :
                       R[k] = SelectSeq(objs, LAMBDA o : Upper(o[1]) = k)

\* two objects whose names differ only in case share one key, in input order
C1_Witness ==
    \E c \in Calls :
        /\ outcome[c].kind = "ok"
        /\ \E k \in DOMAIN outcome[c].result :
               LET g == outcome[c].result[k]
               IN  Len(g) = 2 /\ g[1][1] # g[2][1] /\ g[1] = parser[c].objs[1]

\* C5 as stated: a '#' in the input makes parse fail with a lexical error
\* that names the line of the '#'.
C5_HashIsIllegal ==
    \A c \in Calls :
        (pc[c] = "done" /\ \E i \in 1..Len(input[c]) : input[c][i] = "#") =>
            /\ outcome[c].kind = "IllegalChar"
            /\ \E i \in 1..Len(input[c]) :
                   input[c][i] = "#" /\ outcome[c].line = 1 + Newlines(input[c], i)

\* C5 amended: no input makes the lexer raise its illegal-character error,
\* and a '#' outside a comment of an accepted input is kept in a field.
C5_NoIllegalChar ==
    \A c \in Calls :
        /\ outcome[c].kind # "IllegalChar"
        /\ (outcome[c].kind = "ok" /\ \E i \in 1..Len(input[c]) :
                input[c][i] = "#" /\ ~InComment(input[c], i)) =>
               \E k \in DOMAIN outcome[c].result :
                   \E r \in 1..Len(outcome[c].result[k]) :
                       \E f \in 1..Len(outcome[c].result[k][r]) :
                           \E i \in 1..Len(outcome[c].result[k][r][f]) :
                               outcome[c].result[k][r][f][i] = "#"

\* an input with a '#' is accepted, the '#' in the name of its object
C5_Witness ==
    \E c \in Calls :
        /\ outcome[c].kind = "ok"
        /\ \E k \in DOMAIN outcome[c].result : \E i \in 1..Len(k) : k[i] = "#"

\* the text holds no object: every character is white space or in a comment
NoObject(t) ==
    \A i \in 1..Len(t) : t[i] \in WSN \/ t[i] = "!" \/ InComment(t, i)

\* C7: parse on an input with no object returns the mapping with no keys.
C7_EmptyAccepted ==
    \A c \in Calls :
        (pc[c] = "done" /\ NoObject(input[c])) => outcome[c] = Ok(EmptyMap)

\* t with character ch put in after its first p characters
InsertAt(t, p, ch) == SubSeq(t, 1, p) \o <<ch>> \o SubSeq(t, p + 1, Len(t))

\* position p of t is right before or right after a comma or semicolon
AtSeparator(t, p) ==
    \/ p >= 1 /\ t[p] \in Seps
    \/ p < Len(t) /\ t[p + 1] \in Seps

\* C8: for an accepted input, a space or tab put right before or right
\* after a comma or semicolon gives an input accepted with the same mapping.
C8_WhitespaceInsensitive ==
    \A c \in Calls :
        outcome[c].kind = "ok" =>
            \A p \in 0..Len(input[c]) :
                AtSeparator(input[c], p) =>
                    \A ws \in HWS : ParseAlone(InsertAt(input[c], p, ws)) = outcome[c]

\* C10: a lexer's line counter is 1 plus the number of newline characters in
\* the text it has consumed.
C10_LineCounter ==
    \A c \in Calls :
        pc[c] # "start" =>
            lexers[c].lineno = 1 + Newlines(lexers[c].data, lexers[c].pos)


\* C9: a call of parse interleaved with another ends as it does alone: the
\* same mapping, or the same error naming the same line.
C9_Independent ==
    \A c \in Calls : pc[c] = "done" => outcome[c] = ParseAlone(input[c])


(***************************************************************************)
(* Properties of extract_zones.                                            *)
(***************************************************************************)
ZoneRecs == parsed_idf.zone

SurfaceRecs == parsed_idf.surface

\* a ZONE record with a name and three numeric origin fields
GoodZone(z) == Len(z) >= 6 /\ \A j \in 4..6 : IsFloat(z[j])

\* C2: a ZONE record with a bad origin does not end extract_zones, and every
\* good ZONE record has its entry, with its origin, once the zone loop is over.
C2_ZoneErrorsLocal ==
    /\ epc = "zones" => raised = "none"
    /\ epc \in {"surfaces", "returned"} =>
           \A i \in 1..Len(ZoneRecs) :
               GoodZone(ZoneRecs[i]) =>
                   /\ ZoneRecs[i][2] \in DOMAIN zones
                   /\ \E j \in 1..Len(ZoneRecs) :
                          /\ GoodZone(ZoneRecs[j]) /\ ZoneRecs[j][2] = ZoneRecs[i][2]
                          /\ zones[ZoneRecs[i][2]].origin =
                                 <<FloatOf(ZoneRecs[j][4]), FloatOf(ZoneRecs[j][5]),
                                   FloatOf(ZoneRecs[j][6])>>

\* field k of s is '4' and 12 numeric fields follow it
DeclaresQuad(s, k) ==
    /\ s[k] = Four
    /\ k + 12 <= Len(s)
    /\ \A j \in (k + 1)..(k + 12) : IsFloat(s[j])

\* the 12 fields after field k as 4 (x, y, z) triples
Quad(s, k) ==
    [i \in 1..4 |->
        <<FloatOf(s[k + 3 * i - 2]), FloatOf(s[k + 3 * i - 1]), FloatOf(s[k + 3 * i])>>]

\* the surface decodes: a '4', then 12 numeric fields
Decodes(s) == \E k \in 1..Len(s) : DeclaresQuad(s, k) /\ \A j \in 1..(k - 1) : s[j] # Four

\* the surface's zone is known
KnownZone(s) == Len(s) >= 5 /\ s[5] \in DOMAIN zones

\* C3: a surface of a known zone that fails to decode does not end
\* extract_zones and adds nothing; each zone holds one polygon for each
\* surface of it handled so far that decodes.
C3_SurfaceErrorsLocal ==
    /\ (epc = "surfaces" /\ raised # "none") => ~KnownZone(SurfaceRecs[idx])
    /\ (epc = "surfaces" /\ raised = "none") =>
           \A z \in DOMAIN zones :
               Len(zones[z].surfaces) =
                   Cardinality({i \in 1..(idx - 1) :
                                   SurfaceRecs[i][5] = z /\ Decodes(SurfaceRecs[i])})

\* the surface loop is about to handle a record
AtSurface == epc = "surfaces" /\ raised = "none" /\ idx <= Len(SurfaceRecs)

\* C4 as stated: a surface of a known zone with a field '4' followed by 12
\* numeric fields gets exactly the polygon of these 12 fields appended to its
\* zone, whatever its other fields hold.
C4_AnyFour ==
    [][AtSurface =>
          LET s == SurfaceRecs[idx]
          IN  \A k \in 1..Len(s) :
                  (KnownZone(s) /\ DeclaresQuad(s, k)) =>
                      zones' = [zones EXCEPT ![s[5]].surfaces = Append(@, Quad(s, k))]]_vars

\* C4 amended: the same, when no field before the count field holds '4'.
C4_FirstFour ==
    [][AtSurface =>
          LET s == SurfaceRecs[idx]
          IN  \A k \in 1..Len(s) :
                  (KnownZone(s) /\ DeclaresQuad(s, k) /\ \A j \in 1..(k - 1) : s[j] # Four) =>
                      zones' = [zones EXCEPT ![s[5]].surfaces = Append(@, Quad(s, k))]]_vars

\* a surface whose first '4' is followed by 12 numeric fields has been handled
\* and its polygon is in its zone
C4_Witness ==
    /\ epc \in {"surfaces", "returned"}
    /\ \E i \in 1..(idx - 1) :
           LET s == SurfaceRecs[i]
           IN  /\ KnownZone(s)
               /\ \E k \in 1..Len(s) :
                      /\ DeclaresQuad(s, k) /\ \A j \in 1..(k - 1) : s[j] # Four
                      /\ \E n \in 1..Len(zones[s[5]].surfaces) :
                             zones[s[5]].surfaces[n] = Quad(s, k)

\* C6: when extract_zones returns, its keys are the names of the ZONE
\* records, a zone holds no more polygons than surfaces name it, and no error
\* was printed for a surface of an unknown zone.
C6_KeysAreZoneNames ==
    epc = "returned" =>
        /\ DOMAIN zones = {ZoneRecs[i][2] : i \in 1..Len(ZoneRecs)}
        /\ \A z \in DOMAIN zones :
               Len(zones[z].surfaces) <=
                   Cardinality({i \in 1..Len(SurfaceRecs) : SurfaceRecs[i][5] = z})
        /\ \A n \in 1..Len(errors) : SurfaceRecs[errors[n]][5] \in DOMAIN zones

\* extract_zones returned a zone without surfaces, having met a surface of an
\* unknown zone
C6_Witness ==
    /\ epc = "returned"
    /\ \E z \in DOMAIN zones : zones[z].surfaces = <<>>
    /\ \E i \in 1..Len(SurfaceRecs) : SurfaceRecs[i][5] \notin DOMAIN zones

=============================================================================
